---- MODULE Spec2Model ----
(***************************************************************************)
(* Template rendering of ufs_pyutils: confs/jinja2_interface.py            *)
(* (write_from_template and its helpers) and confs/template_interface.py   *)
(* (Template.write_tmpl and its helpers).                                  *)
(*                                                                         *)
(* Text is a sequence of one-character strings, a file is its text, and    *)
(* the file system maps a path to its text or to Absent.  The string       *)
(* operations of the code (in, index, replace, strip, split) are computed  *)
(* character by character.                                                 *)
(***************************************************************************)
EXTENDS Naturals, Sequences, FiniteSets, TLC

\* ------------------------------------------------------------------------
\* Python str operations, on sequences of characters.
\* ------------------------------------------------------------------------

NL == "\n"
SP == " "

\* str.startswith / slicing helpers.
Drop(s, n) == IF n >= Len(s) THEN <<>> ELSE SubSeq(s, n + 1, Len(s))
Take(s, n) == IF n >= Len(s) THEN s ELSE SubSeq(s, 1, n)
StartsWith(s, p) == Len(p) <= Len(s) /\ SubSeq(s, 1, Len(p)) = p

\* `sub in s`.
Occurrences(s, sub) ==
    {i \in 1..(Len(s) + 1 - Len(sub)) : SubSeq(s, i, i + Len(sub) - 1) = sub}

Contains(s, sub) == Occurrences(s, sub) # {}

\* s.index(sub), zero-based as in Python; only used where Contains holds,
\* the ValueError of a failed index is raised by the caller of this operator.
MinOf(S) == CHOOSE i \in S : \A j \in S : i <= j

Index(s, sub) == MinOf(Occurrences(s, sub)) - 1

\* s[a:b] with 0 <= a, 0 <= b (Python slice, empty when a >= b).
Slice(s, a, b) == IF a >= b THEN <<>> ELSE Drop(Take(s, b), a)

\* s.replace(old, new), old non-empty: every non-overlapping occurrence,
\* left to right.
RECURSIVE Replace(_, _, _)
ReplaceAt(s, old, new, k) ==
    Take(s, k) \o new \o Replace(Drop(s, k + Len(old)), old, new)

Replace(s, old, new) ==
    IF ~Contains(s, old) THEN s ELSE ReplaceAt(s, old, new, Index(s, old))

IsSpace(c) == c \in {SP, NL, "\t"}

RECURSIVE LStrip(_)
LStrip(s) == IF s # <<>> /\ IsSpace(Head(s)) THEN LStrip(Tail(s)) ELSE s

RECURSIVE RStrip(_)
RStrip(s) ==
    IF s # <<>> /\ IsSpace(s[Len(s)]) THEN RStrip(SubSeq(s, 1, Len(s) - 1)) ELSE s

Strip(s) == LStrip(RStrip(s))

\* s.split(sep) for a one-character separator: always at least one element.
RECURSIVE Split(_, _)
SplitAt(s, sep, k) == <<Take(s, k)>> \o Split(Drop(s, k + 1), sep)

Split(s, sep) == IF ~Contains(s, <<sep>>) THEN <<s>> ELSE SplitAt(s, sep, Index(s, <<sep>>))

\* s.split("\n")
SplitLines(s) == Split(s, NL)

\* "".join(parts) and sep.join(parts).
RECURSIVE Concat(_)
Concat(parts) == IF parts = <<>> THEN <<>> ELSE Head(parts) \o Concat(Tail(parts))

RECURSIVE Join(_, _)
Join(sep, parts) ==
    IF parts = <<>> THEN <<>>
    ELSE IF Len(parts) = 1 THEN parts[1]
    ELSE parts[1] \o sep \o Join(sep, Tail(parts))

\* [f"{line}\n" for line in lines], concatenated: what a loop of
\* file.write(f"{line}\n") leaves in the file.
WriteLines(lines) == Concat([i \in 1..Len(lines) |-> lines[i] \o <<NL>>])

\* The elements of a sequence.
Range(seq) == {seq[i] : i \in 1..Len(seq)}

\* ------------------------------------------------------------------------
\* Values of a mapping and the mapping itself.  A mapping is ordered (a
\* Python dict keeps insertion order): a sequence of [k, v] pairs with
\* distinct keys.  A value is a string, a boolean, an integer or a nested
\* mapping.
\* ------------------------------------------------------------------------

StrV(x)  == [t |-> "str",  s |-> x,    b |-> FALSE, n |-> 0, m |-> <<>>]
BoolV(x) == [t |-> "bool", s |-> <<>>, b |-> x,     n |-> 0, m |-> <<>>]
IntV(x)  == [t |-> "int",  s |-> <<>>, b |-> FALSE, n |-> x, m |-> <<>>]
MapV(x)  == [t |-> "map",  s |-> <<>>, b |-> FALSE, n |-> 0, m |-> x]
\* The Undefined object of the back end (a failed lookup).
UndefV   == [t |-> "undef", s |-> <<>>, b |-> FALSE, n |-> 0, m |-> <<>>]

Pair(key, value) == [k |-> key, v |-> value]
Keys(d) == [i \in 1..Len(d) |-> d[i].k]
HasKey(d, key) == \E i \in 1..Len(d) : d[i].k = key
Get(d, key) == d[CHOOSE i \in 1..Len(d) : d[i].k = key].v

\* str(int) for a natural number.
Digit(n) == <<"0", "1", "2", "3", "4", "5", "6", "7", "8", "9">>[n + 1]

RECURSIVE IntStr(_)
IntStr(n) == IF n < 10 THEN <<Digit(n)>> ELSE IntStr(n \div 10) \o <<Digit(n % 10)>>

TrueStr  == <<"T", "r", "u", "e">>
FalseStr == <<"F", "a", "l", "s", "e">>

\* repr() of a value that sits inside a nested mapping (never a mapping
\* itself: nesting is one level deep in this model).
ReprScalar(v) ==
    IF v.t = "str" THEN <<"'">> \o v.s \o <<"'">>
    ELSE IF v.t = "bool" THEN (IF v.b THEN TrueStr ELSE FalseStr)
    ELSE IntStr(v.n)

\* str(value) as Python prints it.
PyStr(v) ==
    IF v.t = "str" THEN v.s
    ELSE IF v.t = "bool" THEN (IF v.b THEN TrueStr ELSE FalseStr)
    ELSE IF v.t = "int" THEN IntStr(v.n)
    ELSE IF v.t = "map" THEN
        <<"{">> \o Join(<<",", " ">>,
                        [i \in 1..Len(v.m) |->
                            <<"'">> \o v.m[i].k \o <<"'", ":", " ">> \o ReprScalar(v.m[i].v)])
        \o <<"}">>
    ELSE <<>>

\* ------------------------------------------------------------------------
\* The Jinja2 back end, as far as the code uses it: Environment.get_template
\* (load and compile), Template.render, meta.find_undeclared_variables and
\* str() of a Template object.  Only print statements {{ expr }} with expr
\* a name or a dotted name are rendered; a statement block {% ... %} with a
\* tag the back end does not know, an unclosed {{ and any other expression
\* text are syntax errors.
\* ------------------------------------------------------------------------

VarOpen  == <<"{", "{">>
VarClose == <<"}", "}">>
BlockOpen == <<"{", "%">>

UpperChars == {"A", "B", "C", "D", "E", "F", "G", "H", "I", "J", "K", "L", "M",
               "N", "O", "P", "Q", "R", "S", "T", "U", "V", "W", "X", "Y", "Z"}
LowerChars == {"a", "b", "c", "d", "e", "f", "g", "h", "i", "j", "k", "l", "m",
               "n", "o", "p", "q", "r", "s", "t", "u", "v", "w", "x", "y", "z"}
DigitChars == {"0", "1", "2", "3", "4", "5", "6", "7", "8", "9"}
IdentChars == UpperChars \cup LowerChars \cup DigitChars \cup {"_"}

JinjaKeywords == { <<"o", "r">>, <<"a", "n", "d">>, <<"n", "o", "t">>, <<"i", "n">>,
                   <<"i", "s">>, <<"i", "f">>, <<"e", "l", "s", "e">> }

IsIdent(x) ==
    /\ x # <<>>
    /\ \A i \in 1..Len(x) : x[i] \in IdentChars
    /\ x[1] \notin DigitChars
    /\ x \notin JinjaKeywords

\* x.split(".")
SplitDots(x) == Split(x, ".")

\* The expression of a print statement: a dotted chain of identifiers,
\* or malformed.
AllIdent(parts) == \A i \in 1..Len(parts) : IsIdent(parts[i])

ExprOk(x) == AllIdent(SplitDots(x))

\* The lexer: stretches of data and print statements, in order; "err"
\* marks a syntax error at that point.
VarToken(x) == [t |-> IF ExprOk(x) THEN "var" ELSE "err", x |-> x]
ErrToken == [t |-> "err", x |-> <<>>]
DataToken(x) == [t |-> "data", x |-> x]

RECURSIVE JLex(_)
JLexVar(rest, k) == <<VarToken(Strip(Take(rest, k)))>> \o JLex(Drop(rest, k + 2))

JLexStatement(begin, rest) ==
    IF begin = BlockOpen \/ ~Contains(rest, VarClose) THEN <<ErrToken>>
    ELSE JLexVar(rest, Index(rest, VarClose))

JLexAt(s, b) ==
    (IF b > 1 THEN <<DataToken(Take(s, b - 1))>> ELSE <<>>)
    \o JLexStatement(SubSeq(s, b, b + 1), Drop(s, b + 1))

JLexFrom(s, begins) == IF begins = {} THEN <<DataToken(s)>> ELSE JLexAt(s, MinOf(begins))

JLex(s) ==
    IF s = <<>> THEN <<>>
    ELSE JLexFrom(s, Occurrences(s, VarOpen) \cup Occurrences(s, BlockOpen))

\* The lexer drops one trailing newline of the source
\* (keep_trailing_newline is off in a default Environment).
JSource(text) ==
    IF text # <<>> /\ text[Len(text)] = NL THEN Take(text, Len(text) - 1) ELSE text

JTokens(text) == JLex(JSource(text))

\* Whether compiling the text raises TemplateSyntaxError.
HasErr(toks) == \E i \in 1..Len(toks) : toks[i].t = "err"

JSyntaxError(text) == HasErr(JTokens(text))

\* meta.find_undeclared_variables of the parsed text: the root names of
\* its print statements.
RootNames(toks) ==
    {SplitDots(toks[i].x)[1] : i \in {j \in 1..Len(toks) : toks[j].t = "var"}}

JUndeclared(text) == RootNames(JTokens(text))

\* str() of a Template object, which is what Environment.parse receives
\* when it is handed the template object: <Template 'name'>.
TemplateRepr(basename) ==
    <<"<", "T", "e", "m", "p", "l", "a", "t", "e", " ", "'">> \o basename \o <<"'", ">">>

\* os.environ.
EnvHome == <<"H", "O", "M", "E">>
Environ == << Pair(EnvHome, StrV(<<"/", "r">>)) >>
EnvName == <<"e", "n", "v">>

\* A context in which no name has a value.
LookupNothing(in_dict, name) == UndefV

\* The context of tmpl.render(in_dict, env=os.environ): dict(in_dict,
\* env=os.environ); the keyword argument replaces a key "env" of in_dict.
Lookup(in_dict, name) ==
    IF name = EnvName THEN MapV(Environ)
    ELSE IF HasKey(in_dict, name) THEN Get(in_dict, name)
    ELSE UndefV

\* environment.getattr(obj, attr): the item of a mapping, Undefined for
\* anything else; on Undefined itself it raises UndefinedError ("raise").
GetAttr(obj, attr) ==
    IF obj.t = "undef" THEN [t |-> "raise", s |-> <<>>, b |-> FALSE, n |-> 0, m |-> <<>>]
    ELSE IF obj.t = "raise" THEN obj
    ELSE IF obj.t = "map" /\ HasKey(obj.m, attr) THEN Get(obj.m, attr)
    ELSE UndefV

RECURSIVE EvalChain(_, _)
EvalChain(obj, attrs) ==
    IF attrs = <<>> THEN obj ELSE EvalChain(GetAttr(obj, Head(attrs)), Tail(attrs))

EvalParts(in_dict, parts) == EvalChain(Lookup(in_dict, parts[1]), Tail(parts))

EvalExpr(in_dict, x) == EvalParts(in_dict, SplitDots(x))

\* Whether tmpl.render raises on a compiled text.
AnyRaises(toks, in_dict) ==
    \E i \in 1..Len(toks) : toks[i].t = "var" /\ EvalExpr(in_dict, toks[i].x).t = "raise"

JRenderRaises(text, in_dict) == AnyRaises(JTokens(text), in_dict)

\* The text tmpl.render returns; Undefined prints as the empty string.
RenderTokens(toks, in_dict) ==
    Concat([i \in 1..Len(toks) |->
               IF toks[i].t = "data" THEN toks[i].x
               ELSE PyStr(EvalExpr(in_dict, toks[i].x))])

JRender(text, in_dict) == RenderTokens(JTokens(text), in_dict)

\* ------------------------------------------------------------------------
\* The file system: a path is a sequence of characters, a file is its text.
\* ------------------------------------------------------------------------

Absent == [e |-> FALSE, x |-> <<>>]
File(text) == [e |-> TRUE, x |-> text]

\* The number of calls one behaviour makes.
MaxCalls == 2

TmplPath == <<"t">>
OutPath  == <<"o">>
VirtPath(i) == <<"v", Digit(i)>>
Paths == {TmplPath, OutPath} \cup {VirtPath(i) : i \in 1..MaxCalls}

\* A factory that hands the same well-known path to every call.
shared_virtual_file(nvirt) == VirtPath(1)

\* fileio_interface.virtual_file().name: a path no earlier call was given;
\* no file is left at it until the caller opens it for writing.
virtual_file(nvirt) == VirtPath(nvirt + 1)

\* ------------------------------------------------------------------------
\* confs/template_interface.py: the marker catalog.
\* ------------------------------------------------------------------------

TMPL_ITEM_LIST ==
    << <<"[", "@", "%", "s", "]">>,
       <<"{", "@", "%", "s", "}">>,
       <<"{", "%", "%", "%", "s", "%", "%", "}">>,
       <<"{", "{", "%", "%", " ", "%", "s", " ", "%", "%", "}", "}">>,
       <<"<", "%", "s", ">">>,
       <<"{", "%", "%", " ", "%", "s", " ", "%", "%", "}">>,
       <<"{", "{", " ", "%", "s", " ", "}", "}">> >>

FmtSlot == <<"%", "s">>

\* item.split("%s") of a catalog entry: the text before and after the slot.
SplitSlot(item) ==
    <<Take(item, Index(item, FmtSlot)), Drop(item, Index(item, FmtSlot) + 2)>>

\* item % key: "%%" prints one "%", "%s" prints the key.
RECURSIVE PercentFormat(_, _)
PercentFormat(item, key) ==
    IF item = <<>> THEN <<>>
    ELSE IF StartsWith(item, <<"%", "%">>) THEN <<"%">> \o PercentFormat(Drop(item, 2), key)
    ELSE IF StartsWith(item, FmtSlot) THEN key \o PercentFormat(Drop(item, 2), key)
    ELSE <<Head(item)>> \o PercentFormat(Tail(item), key)

\* ------------------------------------------------------------------------
\* confs/jinja2_interface.py
\* ------------------------------------------------------------------------

\* (dirname, basename) of a path.
RECURSIVE LastSlash(_)
LastSlash(path) ==
    IF path = <<>> THEN 0
    ELSE IF path[Len(path)] = "/" THEN Len(path)
    ELSE LastSlash(Take(path, Len(path) - 1))

SplitPath(tmpl_path, k) ==
    << (IF k > 1 THEN Take(tmpl_path, k - 1) ELSE Take(tmpl_path, k)), Drop(tmpl_path, k) >>

get_template_file_attrs(tmpl_path) == SplitPath(tmpl_path, LastSlash(tmpl_path))

\* _get_template: env.get_template(basename) loads and compiles the file;
\* the template object keeps its name and its source.
get_template(files, tmpl_path) ==
    IF ~files[tmpl_path].e THEN
        [exc |-> "TemplateNotFound", name |-> <<>>, source |-> <<>>]
    ELSE IF JSyntaxError(files[tmpl_path].x) THEN
        [exc |-> "TemplateSyntaxError", name |-> <<>>, source |-> <<>>]
    ELSE [exc |-> "none",
          name |-> get_template_file_attrs(tmpl_path)[2],
          source |-> files[tmpl_path].x]

\* A set of names as a list (list(set), in some order).
RECURSIVE SetToSeq(_)
SetToSeqFrom(S, x) == <<x>> \o SetToSeq(S \ {x})

SetToSeq(S) == IF S = {} THEN <<>> ELSE SetToSeqFrom(S, CHOOSE y \in S : TRUE)

OrStr == <<"o", "r">>

\* The fallback scan of _get_template_vars over the lines of the file.
scan_name(item) ==
    LStrip(RStrip(Slice(item, Index(item, VarOpen) + Len(VarOpen), Index(item, VarClose))))

scan_item(item, rest) ==
    IF Contains(item, VarClose) /\ ~Contains(item, OrStr) THEN
        IF ~Contains(item, VarOpen) THEN [exc |-> "ValueError", variables |-> <<>>]
        ELSE IF rest.exc # "none" THEN rest
        ELSE [exc |-> "none", variables |-> <<scan_name(item)>> \o rest.variables]
    ELSE rest

RECURSIVE ScanLines(_)
ScanLines(data) ==
    IF data = <<>> THEN [exc |-> "none", variables |-> <<>>]
    ELSE scan_item(Head(data), ScanLines(Tail(data)))

\* The analyzer's answer in _get_template_vars:
\* meta.find_undeclared_variables(env.parse(tmpl)), tmpl the template
\* object, which the parser reads through str().
parsed_variables(tmpl) == SetToSeq(JUndeclared(TemplateRepr(tmpl.name)))

fallback_if_empty(variables, text) ==
    IF Len(variables) = 0 THEN ScanLines(SplitLines(text))
    ELSE [exc |-> "none", variables |-> variables]

template_vars_of(tmpl, files, tmpl_path) ==
    IF tmpl.exc # "none" THEN [exc |-> tmpl.exc, variables |-> <<>>]
    ELSE fallback_if_empty(parsed_variables(tmpl), files[tmpl_path].x)

get_template_vars(files, tmpl_path) ==
    template_vars_of(get_template(files, tmpl_path), files, tmpl_path)

\* A key that is a tuple (first, second), and the test isinstance(item, tuple).
TupleKey(first, second) == <<"tuple", first, second>>
IsTuple(item) == item # <<>> /\ item[1] = "tuple"

\* list(in_dict) as it is, without the test of lines 260-263.
get_defvars_plain(in_dict) == Keys(in_dict)

\* _get_defvars: the keys of the mapping, item[0] for a key that is a
\* tuple.
get_defvars(in_dict) ==
    [i \in 1..Len(in_dict) |->
        IF IsTuple(in_dict[i].k) THEN in_dict[i].k[2] ELSE in_dict[i].k]

\* The end of _find_missing_vars without the raise of lines 215-217: the
\* warning only.
report_warning(missing_vars_list, fail_missing) ==
    [exc |-> "none", cause |-> "none",
     missing |-> missing_vars_list, warned |-> Len(missing_vars_list) # 0]

\* The end of _find_missing_vars: raise under fail_missing, else warn.
report_missing(missing_vars_list, fail_missing) ==
    IF Len(missing_vars_list) # 0 /\ fail_missing THEN
        [exc |-> "Jinja2InterfaceError", cause |-> "missing",
         missing |-> missing_vars_list, warned |-> FALSE]
    ELSE [exc |-> "none", cause |-> "none",
          missing |-> missing_vars_list, warned |-> Len(missing_vars_list) # 0]

compare_missing(found, compare_variables, fail_missing) ==
    IF found.exc # "none" THEN
        [exc |-> found.exc, cause |-> found.exc, missing |-> <<>>, warned |-> FALSE]
    ELSE report_missing(SelectSeq(found.variables, LAMBDA v : v \notin compare_variables),
                        fail_missing)

\* _find_missing_vars without lines 192-196, its test of the empty
\* dictionary.
find_missing_vars_unguarded(files, tmpl_path, in_dict, fail_missing) ==
    compare_missing(get_template_vars(files, tmpl_path),
                    Range(get_defvars(in_dict)), fail_missing)

find_missing_vars(files, tmpl_path, in_dict, fail_missing) ==
    IF in_dict = <<>> THEN
        [exc |-> "Jinja2InterfaceError", cause |-> "empty",
         missing |-> <<>>, warned |-> FALSE]
    ELSE compare_missing(get_template_vars(files, tmpl_path),
                         Range(get_defvars(in_dict)), fail_missing)

\* One line of _replace_tmplmarkers: the first catalog entry with both of
\* its literals in the line rewrites it.
RECURSIVE replace_line(_, _)
replace_with(string, items, tmplstr) ==
    IF Contains(string, tmplstr[1]) /\ Contains(string, tmplstr[2]) THEN
        Replace(Replace(string, Strip(tmplstr[1]), <<"{", "{", " ">>),
                Strip(tmplstr[2]), <<" ", "}", "}">>)
    ELSE replace_line(string, Tail(items))

replace_line(string, items) ==
    IF items = <<>> THEN string ELSE replace_with(string, items, SplitSlot(Head(items)))

\* The text _replace_tmplmarkers writes for a template text.
normalized_lines(inputs) ==
    WriteLines([i \in 1..Len(inputs) |-> replace_line(inputs[i], TMPL_ITEM_LIST)])

normalized_text(text) == normalized_lines(SplitLines(text))

\* _replace_tmplmarkers writing the normalized text over the file it read
\* instead of a virtual file.
replace_in_place(files, tmpl_path, nvirt) ==
    IF ~files[tmpl_path].e THEN
        [exc |-> "FileNotFoundError", fs |-> files, virtfile |-> tmpl_path, nvirt |-> nvirt]
    ELSE [exc |-> "none",
          fs |-> [files EXCEPT ![tmpl_path] = File(normalized_text(files[tmpl_path].x))],
          virtfile |-> tmpl_path,
          nvirt |-> nvirt]

replace_tmplmarkers(files, tmpl_path, nvirt) ==
    IF ~files[tmpl_path].e THEN
        [exc |-> "FileNotFoundError", fs |-> files, virtfile |-> tmpl_path, nvirt |-> nvirt]
    ELSE [exc |-> "none",
          fs |-> [files EXCEPT ![virtual_file(nvirt)] =
                      File(normalized_text(files[tmpl_path].x))],
          virtfile |-> virtual_file(nvirt),
          nvirt |-> nvirt + 1]

\* parser_interface.f90_bool.
parser_f90_bool(value) ==
    IF value.t = "bool" THEN StrV(IF value.b THEN <<"T">> ELSE <<"F">>) ELSE value

\* A call without the f90_bool loop: in_dict as the caller gave it.
keep_in_dict(in_dict) == in_dict

\* The f90_bool loop of write_from_template: in_dict[key] = f90_bool(value).
adapt_in_place(in_dict) ==
    [i \in 1..Len(in_dict) |-> Pair(in_dict[i].k, parser_f90_bool(in_dict[i].v))]

\* The skip rewrite of write_from_template: the file at tmpl_path without
\* the lines that contain a missing name.
kept_lines(tmpl_in_list, missing_vars_list) ==
    SelectSeq(tmpl_in_list,
              LAMBDA tmpl_var :
                  ~\E i \in 1..Len(missing_vars_list) :
                      Contains(tmpl_var, missing_vars_list[i]))

skip_rewrite(files, tmpl_path, missing_vars_list) ==
    [files EXCEPT ![tmpl_path] =
        File(WriteLines(kept_lines(SplitLines(files[tmpl_path].x), missing_vars_list)))]

\* The try block of write_from_template: load the template, open the
\* output for writing, render into it.
render_loaded(tmpl, files, output_file, in_dict) ==
    IF tmpl.exc # "none" THEN
        [exc |-> "Jinja2InterfaceError", cause |-> tmpl.exc, fs |-> files]
    ELSE IF JRenderRaises(tmpl.source, in_dict) THEN
        [exc |-> "Jinja2InterfaceError", cause |-> "UndefinedError",
         fs |-> [files EXCEPT ![output_file] = File(<<>>)]]
    ELSE [exc |-> "none", cause |-> "none",
          fs |-> [files EXCEPT ![output_file] = File(JRender(tmpl.source, in_dict))]]

render_to_output(files, tmpl_path, output_file, in_dict) ==
    render_loaded(get_template(files, tmpl_path), files, output_file, in_dict)

\* What one call leaves behind: virt is the set of temporary copies the
\* call made, rewrote the set of files the skip policy rewrote.
CallResult(files, in_dict, nvirt, exc, cause, missing, warned, virt, rewrote) ==
    [fs |-> files, in_dict |-> in_dict, nvirt |-> nvirt, exc |-> exc, cause |-> cause,
     missing |-> missing, warned |-> warned, virt |-> virt, rewrote |-> rewrote]

\* write_from_template, from its end to its start.  repl is what the
\* marker step left (repl.virtfile is tmpl_path from there on), found the
\* answer of _find_missing_vars, rendered that of the try block.

\* After the try block: raise, or unlink and return.
wft_cleanup(repl, in_dict, found, rendered, rpl_tmpl_mrks, skip_missing) ==
    IF rendered.exc # "none" THEN
        CallResult(rendered.fs, in_dict, repl.nvirt, rendered.exc, rendered.cause,
                   found.missing, found.warned,
                   IF rpl_tmpl_mrks THEN {repl.virtfile} ELSE {},
                   IF skip_missing THEN {repl.virtfile} ELSE {})
    ELSE CallResult(IF rpl_tmpl_mrks \/ skip_missing
                    THEN [rendered.fs EXCEPT ![repl.virtfile] = Absent]
                    ELSE rendered.fs,
                    in_dict, repl.nvirt, "none", "none", found.missing, found.warned,
                    IF rpl_tmpl_mrks THEN {repl.virtfile} ELSE {},
                    IF skip_missing THEN {repl.virtfile} ELSE {})

\* After _find_missing_vars: the skip rewrite and the try block.
wft_render(repl, output_file, in_dict, found, rpl_tmpl_mrks, skip_missing) ==
    IF found.exc # "none" THEN
        CallResult(repl.fs, in_dict, repl.nvirt, found.exc, found.cause,
                   found.missing, FALSE,
                   IF rpl_tmpl_mrks THEN {repl.virtfile} ELSE {}, {})
    ELSE wft_cleanup(repl, in_dict, found,
                     render_to_output(IF skip_missing
                                      THEN skip_rewrite(repl.fs, repl.virtfile, found.missing)
                                      ELSE repl.fs,
                                      repl.virtfile, output_file, in_dict),
                     rpl_tmpl_mrks, skip_missing)

\* After the f90_bool loop: _find_missing_vars.
wft_check(repl, output_file, in_dict, fail_missing, rpl_tmpl_mrks, skip_missing) ==
    wft_render(repl, output_file, in_dict,
               find_missing_vars(repl.fs, repl.virtfile, in_dict, fail_missing),
               rpl_tmpl_mrks, skip_missing)

\* After the marker step: the f90_bool loop.
wft_adapt(repl, output_file, in_dict, fail_missing, rpl_tmpl_mrks, adapt, skip_missing) ==
    IF repl.exc # "none" THEN
        CallResult(repl.fs, in_dict, repl.nvirt, repl.exc, repl.exc, <<>>, FALSE, {}, {})
    ELSE wft_check(repl, output_file,
                   IF adapt THEN adapt_in_place(in_dict) ELSE in_dict,
                   fail_missing, rpl_tmpl_mrks, skip_missing)

write_from_template(files, tmpl_path, output_file, in_dict, nvirt, fail_missing, rpl_tmpl_mrks, adapt, skip_missing) ==
    wft_adapt(IF rpl_tmpl_mrks THEN replace_tmplmarkers(files, tmpl_path, nvirt)
              ELSE [exc |-> "none", fs |-> files, virtfile |-> tmpl_path, nvirt |-> nvirt],
              output_file, in_dict, fail_missing, rpl_tmpl_mrks, adapt, skip_missing)

\* ------------------------------------------------------------------------
\* confs/template_interface.py: class Template.
\* ------------------------------------------------------------------------

\* Python's truth value of a value.
Truthy(value) ==
    IF value.t = "bool" THEN value.b
    ELSE IF value.t = "str" THEN value.s # <<>>
    ELSE IF value.t = "int" THEN value.n # 0
    ELSE IF value.t = "map" THEN value.m # <<>>
    ELSE FALSE

\* `if value: value = "T"`, then `if not value: value = "F"`.
f90_if_value(value) == IF Truthy(value) THEN StrV(<<"T">>) ELSE value
f90_if_not_value(value) == IF ~Truthy(value) THEN StrV(<<"F">>) ELSE value

\* The two statements without the test isinstance(value, bool).
f90_any_type(value) == f90_if_not_value(f90_if_value(value))

\* Template.f90_bool.
f90_bool(value) ==
    IF value.t = "bool" THEN f90_if_not_value(f90_if_value(value)) ELSE value

\* parser_interface.dict_key_value(dict_in, key, force=True, no_split=True):
\* the value of the key as it is, None (here Undefined) for a missing key.
dict_key_value(dict_in, key) ==
    IF HasKey(dict_in, key) THEN Get(dict_in, key) ELSE UndefV

\* Template.tmpl_obj: an object with one attribute per key, in key order;
\* vars() of it is the mapping again.
tmpl_obj(attr_dict) ==
    [i \in 1..Len(attr_dict) |->
        Pair(attr_dict[i].k, dict_key_value(attr_dict, attr_dict[i].k))]

\* Template.read_tmpl: " ".join(f"{item}\n" for item in lines).
join_lines(tmpl_str) == Join(<<SP>>, [i \in 1..Len(tmpl_str) |-> tmpl_str[i] \o <<NL>>])

read_tmpl(text) == join_lines(SplitLines(text))

\* The replacements render_tmpl makes for one key: every catalog entry
\* formatted with the key is replaced by str(value).
RECURSIVE replace_items(_, _, _, _)
replace_items(text, key, value, items) ==
    IF items = <<>> THEN text
    ELSE replace_items(Replace(text, PercentFormat(Head(items), key), PyStr(value)),
                       key, value, Tail(items))

replace_attr(text, key, value, adapt) ==
    IF value.t # "undef"
    THEN replace_items(text, key, IF adapt THEN f90_bool(value) ELSE value, TMPL_ITEM_LIST)
    ELSE text

RECURSIVE replace_attrs(_, _, _, _)
replace_attrs(text, obj, attrs, adapt) ==
    IF attrs = <<>> THEN text
    ELSE replace_attrs(replace_attr(text, Head(attrs).k,
                                    dict_key_value(obj, Head(attrs).k), adapt),
                       obj, Tail(attrs), adapt)

\* The characters of the catalog entries without their slots, spaces
\* excepted.
tmpl_char_list ==
    Range(Concat([i \in 1..Len(TMPL_ITEM_LIST) |->
                     Replace(TMPL_ITEM_LIST[i], FmtSlot, <<>>)])) \ {SP}

\* The lines render_tmpl reports as not rendered.
stripped(lines) == [i \in 1..Len(lines) |-> Strip(lines[i])]

unrendered(tmpl_str_out) ==
    stripped(SelectSeq(SplitLines(tmpl_str_out),
                       LAMBDA tmpl_str : \E c \in tmpl_char_list : Contains(tmpl_str, <<c>>)))

\* The end of render_tmpl without the raise of lines 273-275: the warning
\* only.
check_warning(tmpl_str_out, tmpl_str_list, fail_missing) ==
    [exc |-> "none", out |-> tmpl_str_out,
     missing |-> tmpl_str_list, warned |-> Len(tmpl_str_list) > 0]

check_rendered(tmpl_str_out, tmpl_str_list, fail_missing) ==
    IF Len(tmpl_str_list) > 0 /\ fail_missing THEN
        [exc |-> "TemplateInterfaceError", out |-> tmpl_str_out,
         missing |-> tmpl_str_list, warned |-> FALSE]
    ELSE [exc |-> "none", out |-> tmpl_str_out,
          missing |-> tmpl_str_list, warned |-> Len(tmpl_str_list) > 0]

rendered_text(tmpl_str_out, fail_missing) ==
    check_rendered(tmpl_str_out, unrendered(tmpl_str_out), fail_missing)

render_tmpl(obj, tmpl_str_in, fail_missing, adapt) ==
    rendered_text(replace_attrs(tmpl_str_in, obj, obj, adapt), fail_missing)

\* The end of write_tmpl: every line of the rendered text, stripped.
write_rendered(files, attr_dict, tmpl_path, nvirt, rendered) ==
    IF rendered.exc # "none" THEN
        CallResult(files, attr_dict, nvirt, rendered.exc, "unrendered",
                   rendered.missing, FALSE, {}, {})
    ELSE CallResult([files EXCEPT ![tmpl_path] =
                        File(WriteLines(stripped(SplitLines(rendered.out))))],
                    attr_dict, nvirt, "none", "none",
                    rendered.missing, rendered.warned, {}, {})

\* Template.write_tmpl(attr_dict, tmpl_path, template_path, fail_missing,
\* f90_bool): tmpl_path is the output, template_path the template.
write_tmpl(files, attr_dict, tmpl_path, template_path, nvirt, fail_missing, adapt) ==
    IF ~files[template_path].e THEN
        CallResult(files, attr_dict, nvirt, "FileNotFoundError", "FileNotFoundError",
                   <<>>, FALSE, {}, {})
    ELSE write_rendered(files, attr_dict, tmpl_path, nvirt,
                        render_tmpl(tmpl_obj(attr_dict), read_tmpl(files[template_path].x),
                                    fail_missing, adapt))

\* ------------------------------------------------------------------------
\* The inputs: template texts, mappings, and the output file's old text.
\* ------------------------------------------------------------------------

NAME1 == <<"N", "A", "M", "E", "1">>
NAME2 == <<"N", "A", "M", "E", "2">>
FLAG  == <<"F", "L", "A", "G">>
Ham   == <<"h", "a", "m">>
Eggs  == <<"e", "g", "g", "s">>

\* The canonical placeholder {{ NAME }}.
Ph(name) == <<"{", "{", " ">> \o name \o <<" ", "}", "}">>

\* NAME1={{ NAME1 }} / NAME2={{ NAME2 }}: the template of the unit test.
TScenario == NAME1 \o <<"=">> \o Ph(NAME1) \o <<NL>> \o NAME2 \o <<"=">> \o Ph(NAME2) \o <<NL>>
\* No placeholder, no marker character.
TPlain == <<"x", "=", "1", NL>>
\* No placeholder, one marker character, an indented line, no final newline.
TPlainMark == <<"a", ">", "b", NL, SP, "c">>
\* A placeholder on a line that contains "or".
TOr == <<"f", "o", "r", "=">> \o Ph(NAME2) \o <<NL>>
\* Two placeholders on one line.
TTwo == Ph(NAME1) \o <<SP>> \o Ph(NAME2) \o <<NL>>
\* A line with a closing delimiter and no opening one.
TStray == <<"k", "}", "}", NL>> \o NAME1 \o <<"=">> \o Ph(NAME1) \o <<NL>>
\* An attribute of a variable, on a line that contains "or".
TAttr == <<"f", "o", "r", "=">> \o Ph(NAME2 \o <<".", "x">>) \o <<NL>>
\* A malformed placeholder expression.
TBad == Ph(NAME1 \o <<SP>> \o NAME2) \o <<NL>>
\* Markers of other syntaxes of the catalog.
TMarkers == <<"[", "@">> \o NAME1 \o <<"]", NL, "<">> \o NAME2 \o <<">", NL>>
\* A value of the process environment.
TEnv == Ph(EnvName \o <<".">> \o EnvHome) \o <<NL>>
\* A boolean variable.
TBool == FLAG \o <<"=">> \o Ph(FLAG) \o <<NL>>

Templates == {TScenario, TPlain, TPlainMark, TOr, TTwo, TStray, TAttr, TBad,
              TMarkers, TEnv, TBool}

Mappings ==
    { <<>>,
      << Pair(NAME1, StrV(Ham)) >>,
      << Pair(NAME1, StrV(Ham)), Pair(NAME2, StrV(Eggs)) >>,
      << Pair(NAME1, StrV(Ham)), Pair(FLAG, BoolV(TRUE)) >>,
      << Pair(NAME2, MapV(<< Pair(<<"x">>, BoolV(FALSE)) >>)), Pair(FLAG, BoolV(FALSE)) >>,
      << Pair(EnvName, MapV(<< Pair(EnvHome, StrV(Ham)) >>)) >> }

OldOutput == <<"o", "l", "d", NL>>

\* ------------------------------------------------------------------------
\* The state: the files, the caller's mapping object, the number of
\* virtual files handed out, and the calls made so far, each with the
\* state it started from and what it left.
\* ------------------------------------------------------------------------

VARIABLES fs, in_dict, nvirt, calls

vars == <<fs, in_dict, nvirt, calls>>

Init ==
    /\ \E text \in Templates, out \in {Absent, File(OldOutput)} :
           fs = [p \in Paths |-> IF p = TmplPath THEN File(text)
                                 ELSE IF p = OutPath THEN out
                                 ELSE Absent]
    /\ in_dict \in Mappings
    /\ nvirt = 0
    /\ calls = <<>>

\* The record of one call.
CallRecord(op, fail_missing, rpl_tmpl_mrks, adapt, skip_missing, r) ==
    [op |-> op, fail_missing |-> fail_missing, rpl_tmpl_mrks |-> rpl_tmpl_mrks,
     f90_bool |-> adapt, skip_missing |-> skip_missing,
     pre_fs |-> fs, pre_dict |-> in_dict,
     post_fs |-> r.fs, post_dict |-> r.in_dict,
     exc |-> r.exc, cause |-> r.cause, missing |-> r.missing, warned |-> r.warned,
     virt |-> r.virt, rewrote |-> r.rewrote]

Finish(op, fail_missing, rpl_tmpl_mrks, adapt, skip_missing, r) ==
    /\ fs' = r.fs
    /\ in_dict' = r.in_dict
    /\ nvirt' = r.nvirt
    /\ calls' = Append(calls, CallRecord(op, fail_missing, rpl_tmpl_mrks, adapt,
                                         skip_missing, r))

\* jinja2_interface.write_from_template(TmplPath, OutPath, in_dict, ...).
WriteFromTemplate ==
    /\ Len(calls) < MaxCalls
    /\ \E fail_missing, rpl_tmpl_mrks, adapt, skip_missing \in BOOLEAN :
           Finish("write_from_template", fail_missing, rpl_tmpl_mrks, adapt, skip_missing,
                     write_from_template(fs, TmplPath, OutPath, in_dict, nvirt,
                                         fail_missing, rpl_tmpl_mrks, adapt, skip_missing))

\* Template().write_tmpl(in_dict, OutPath, TmplPath, ...).
WriteTmpl ==
    /\ Len(calls) < MaxCalls
    /\ \E fail_missing, adapt \in BOOLEAN :
           Finish("write_tmpl", fail_missing, FALSE, adapt, FALSE,
                     write_tmpl(fs, in_dict, OutPath, TmplPath, nvirt, fail_missing, adapt))

Next == WriteFromTemplate \/ WriteTmpl

Spec == Init /\ [][Next]_vars

\* ------------------------------------------------------------------------
\* f90_bool on its own: the mapping holds the values, and every step
\* applies Template.f90_bool or parser_interface.f90_bool to one of them.
\* ------------------------------------------------------------------------

F90Values ==
    { BoolV(TRUE), BoolV(FALSE), IntV(0), IntV(1), IntV(123),
      StrV(<<>>), StrV(Ham), StrV(<<"T">>), StrV(<<"F">>), StrV(TrueStr),
      MapV(<<>>), MapV(<< Pair(<<"x">>, BoolV(TRUE)) >>) }

InitF90 ==
    /\ fs = [p \in Paths |-> Absent]
    /\ \E v, w \in F90Values :
           in_dict \in { << Pair(FLAG, v) >>, << Pair(FLAG, v), Pair(NAME1, w) >> }
    /\ nvirt = 0
    /\ calls = <<>>

Applied(op, value, result) ==
    /\ calls' = Append(calls, [op |-> op, value |-> value, result |-> result])
    /\ UNCHANGED <<fs, in_dict, nvirt>>

\* Template.f90_bool(value).
TemplateF90Bool ==
    /\ Len(calls) < MaxCalls
    /\ \E i \in 1..Len(in_dict) :
           Applied("Template.f90_bool", in_dict[i].v, f90_bool(in_dict[i].v))

\* parser_interface.f90_bool(value).
ParserF90Bool ==
    /\ Len(calls) < MaxCalls
    /\ \E i \in 1..Len(in_dict) :
           Applied("parser_interface.f90_bool", in_dict[i].v, parser_f90_bool(in_dict[i].v))

NextF90 == TemplateF90Bool \/ ParserF90Bool

SpecF90 == InitF90 /\ [][NextF90]_vars

\* ------------------------------------------------------------------------
\* _replace_tmplmarkers on its own: every step normalizes the caller's
\* template or a copy an earlier step wrote, into a new virtual file.
\* ------------------------------------------------------------------------

\* One line per syntax of the catalog, and lines without a marker.
MarkerLines == {PercentFormat(TMPL_ITEM_LIST[i], NAME1) : i \in 1..Len(TMPL_ITEM_LIST)}

NormalizerLines ==
    MarkerLines \cup {NAME1 \o <<"=">> \o Ph(NAME1), <<"x", "=", "1">>, <<"a", ">", "b">>}

InitNormalize ==
    /\ \E first, second \in NormalizerLines :
           fs = [p \in Paths |-> IF p = TmplPath
                                 THEN File(first \o <<NL>> \o second \o <<NL>>)
                                 ELSE Absent]
    /\ in_dict = <<>>
    /\ nvirt = 0
    /\ calls = <<>>

Normalized(tmpl_path, r) ==
    /\ fs' = r.fs
    /\ nvirt' = r.nvirt
    /\ calls' = Append(calls, [op |-> "_replace_tmplmarkers", exc |-> r.exc,
                               tmpl_path |-> tmpl_path, virtfile |-> r.virtfile,
                               input |-> fs[tmpl_path].x, output |-> r.fs[r.virtfile].x])
    /\ UNCHANGED in_dict

\* jinja2_interface._replace_tmplmarkers(tmpl_path).
ReplaceTmplMarkers ==
    /\ nvirt < MaxCalls
    /\ \E tmpl_path \in {p \in Paths : fs[p].e} :
           Normalized(tmpl_path, replace_tmplmarkers(fs, tmpl_path, nvirt))

NextNormalize == ReplaceTmplMarkers

SpecNormalize == InitNormalize /\ [][NextNormalize]_vars

\* ------------------------------------------------------------------------
\* _find_missing_vars on its own: every step compares the variables of
\* the template with the keys of the mapping, some of them tuples.
\* ------------------------------------------------------------------------

\* Mappings with a key that is a 2-tuple.
TupleMappings ==
    { << Pair(NAME1, StrV(Ham)), Pair(TupleKey(NAME2, <<"m">>), StrV(Eggs)) >>,
      << Pair(TupleKey(NAME1, <<"m">>), StrV(Ham)) >>,
      << Pair(TupleKey(FLAG, NAME1), BoolV(TRUE)) >> }

InitMissing ==
    /\ \E text \in Templates :
           fs = [p \in Paths |-> IF p = TmplPath THEN File(text) ELSE Absent]
    /\ in_dict \in Mappings \cup TupleMappings
    /\ nvirt = 0
    /\ calls = <<>>

Compared(fail_missing, r) ==
    /\ calls' = Append(calls, [op |-> "_find_missing_vars", fail_missing |-> fail_missing,
                               tmpl |-> fs[TmplPath].x, in_dict |-> in_dict,
                               exc |-> r.exc, cause |-> r.cause, missing |-> r.missing])
    /\ UNCHANGED <<fs, in_dict, nvirt>>

\* jinja2_interface._find_missing_vars(TmplPath, in_dict, fail_missing).
FindMissingVars ==
    /\ Len(calls) < MaxCalls
    /\ \E fail_missing \in BOOLEAN :
           Compared(fail_missing, find_missing_vars(fs, TmplPath, in_dict, fail_missing))

NextMissing == FindMissingVars

SpecMissing == InitMissing /\ [][NextMissing]_vars

\* ------------------------------------------------------------------------
\* Two calls of write_from_template at once, by independent callers: each
\* has its own template path, output path and mapping object; the files
\* and the virtual-file factory are what they share.  A step of a call is
\* one of the stages of write_from_template on the files as they are at
\* that moment; the steps of the two calls interleave in every order.
\* Here in_dict holds the two mapping objects and calls the two calls in
\* progress.
\* ------------------------------------------------------------------------

Callers == {1, 2}

Tmpl2Path == <<"t", "2">>
Out2Path  == <<"o", "2">>
TmplOf(p) == IF p = 1 THEN TmplPath ELSE Tmpl2Path
OutOf(p) == IF p = 1 THEN OutPath ELSE Out2Path

ConcurrentTemplates == {TScenario, TMarkers}

Starting(p, files, d, fail_missing, rpl_tmpl_mrks, adapt, skip_missing) ==
    [pc |-> "normalize", tmpl_path |-> TmplOf(p), output_file |-> OutOf(p),
     fail_missing |-> fail_missing, rpl_tmpl_mrks |-> rpl_tmpl_mrks,
     f90_bool |-> adapt, skip_missing |-> skip_missing,
     pre_fs |-> files, pre_dict |-> d, cur |-> TmplOf(p),
     missing |-> <<>>, exc |-> "none", cause |-> "none"]

ConcurrentFiles(text1, text2) ==
    [p \in Paths \cup {Tmpl2Path, Out2Path} |->
        IF p = TmplPath THEN File(text1)
        ELSE IF p = Tmpl2Path THEN File(text2)
        ELSE IF p = OutPath THEN File(OldOutput)
        ELSE Absent]

InitConcurrent ==
    /\ \E text1, text2 \in ConcurrentTemplates : fs = ConcurrentFiles(text1, text2)
    /\ \E d \in {<< Pair(NAME1, StrV(Ham)) >>,
                 << Pair(NAME1, StrV(Ham)), Pair(NAME2, StrV(Eggs)) >>} :
           in_dict = <<d, << Pair(NAME1, StrV(Ham)), Pair(FLAG, BoolV(TRUE)) >> >>
    /\ nvirt = 0
    /\ \E f1, r1, a1, s1, f2, r2, s2 \in BOOLEAN :
           calls = << Starting(1, fs, in_dict[1], f1, r1, a1, s1),
                      Starting(2, fs, in_dict[2], f2, r2, FALSE, s2) >>

\* A call ends by raising.
Raised(c, exc, cause, missing) ==
    [c EXCEPT !.pc = "done", !.exc = exc, !.cause = cause, !.missing = missing]

\* Lines 586-587: the marker step, which makes the copy the call's
\* tmpl_path.
Normalized2(p, repl) ==
    /\ fs' = repl.fs
    /\ nvirt' = repl.nvirt
    /\ calls' = [calls EXCEPT ![p] =
                    IF repl.exc # "none" THEN Raised(@, repl.exc, repl.exc, <<>>)
                    ELSE [@ EXCEPT !.pc = "check", !.cur = repl.virtfile]]
    /\ UNCHANGED in_dict

Normalize(p) ==
    /\ calls[p].pc = "normalize"
    /\ Normalized2(p, IF calls[p].rpl_tmpl_mrks
                      THEN replace_tmplmarkers(fs, calls[p].tmpl_path, nvirt)
                      ELSE [exc |-> "none", fs |-> fs,
                            virtfile |-> calls[p].tmpl_path, nvirt |-> nvirt])

\* Lines 589-597: the f90_bool loop and _find_missing_vars.
Found(p, found) ==
    /\ calls' = [calls EXCEPT ![p] =
                    IF found.exc # "none"
                    THEN Raised(@, found.exc, found.cause, found.missing)
                    ELSE [@ EXCEPT !.pc = "skip", !.missing = found.missing]]
    /\ UNCHANGED <<fs, nvirt>>

Adapted(p, d) ==
    /\ in_dict' = [in_dict EXCEPT ![p] = d]
    /\ Found(p, find_missing_vars(fs, calls[p].cur, d, calls[p].fail_missing))

Check(p) ==
    /\ calls[p].pc = "check"
    /\ Adapted(p, IF calls[p].f90_bool THEN adapt_in_place(in_dict[p]) ELSE in_dict[p])

\* Lines 601-612: the skip rewrite of the file at tmpl_path.
Skip(p) ==
    /\ calls[p].pc = "skip"
    /\ fs' = IF calls[p].skip_missing
             THEN skip_rewrite(fs, calls[p].cur, calls[p].missing) ELSE fs
    /\ calls' = [calls EXCEPT ![p].pc = "render"]
    /\ UNCHANGED <<in_dict, nvirt>>

\* Lines 617-628: the try block.
Rendered(p, rendered) ==
    /\ fs' = rendered.fs
    /\ calls' = [calls EXCEPT ![p] =
                    IF rendered.exc # "none"
                    THEN Raised(@, rendered.exc, rendered.cause, @.missing)
                    ELSE [@ EXCEPT !.pc = "cleanup"]]
    /\ UNCHANGED <<in_dict, nvirt>>

Render(p) ==
    /\ calls[p].pc = "render"
    /\ Rendered(p, render_to_output(fs, calls[p].cur, calls[p].output_file, in_dict[p]))

\* Lines 630-631: os.unlink(tmpl_path).
Cleanup(p) ==
    /\ calls[p].pc = "cleanup"
    /\ fs' = IF calls[p].rpl_tmpl_mrks \/ calls[p].skip_missing
             THEN [fs EXCEPT ![calls[p].cur] = Absent] ELSE fs
    /\ calls' = [calls EXCEPT ![p].pc = "done"]
    /\ UNCHANGED <<in_dict, nvirt>>

NextConcurrent ==
    \E p \in Callers : Normalize(p) \/ Check(p) \/ Skip(p) \/ Render(p) \/ Cleanup(p)

SpecConcurrent == InitConcurrent /\ [][NextConcurrent]_vars

\* ------------------------------------------------------------------------
\* Properties.  Each is stated over the records of the calls made so far.
\* ------------------------------------------------------------------------

IsJinja(c) == c.op = "write_from_template"

\* The caller's template and the output, before and after call c.
TemplateBefore(c) == c.pre_fs[TmplPath]
TemplateAfter(c) == c.post_fs[TmplPath]
OutputBefore(c) == c.pre_fs[OutPath]
OutputAfter(c) == c.post_fs[OutPath]

\* The text call c renders from when nothing is missing: the caller's
\* template, normalized when the call asked for it.
RenderedFrom(c) ==
    IF c.rpl_tmpl_mrks THEN normalized_text(TemplateBefore(c).x) ELSE TemplateBefore(c).x

\* The names with a placeholder {{ X }} in the caller's template and no
\* key in the mapping.
VariableNames == {NAME1, NAME2, FLAG}

Unmapped(c) ==
    {x \in VariableNames : Contains(TemplateBefore(c).x, Ph(x)) /\ ~HasKey(c.pre_dict, x)}

\* Call c is a call of write_from_template with a template that has a
\* placeholder for a variable the non-empty mapping lacks.
LacksVariable(c) ==
    /\ IsJinja(c)
    /\ TemplateBefore(c).e
    /\ c.pre_dict # <<>>
    /\ Unmapped(c) # {}

\* A text without its spaces.
Unspaced(s) == Replace(s, <<SP>>, <<>>)

\* A text has no placeholder: no line holds both literals of any entry of
\* the catalog.
HasMarkers(line) ==
    \E i \in 1..Len(TMPL_ITEM_LIST) :
        /\ Contains(line, Strip(SplitSlot(TMPL_ITEM_LIST[i])[1]))
        /\ Contains(line, Strip(SplitSlot(TMPL_ITEM_LIST[i])[2]))

NoPlaceholder(text) == \A line \in Range(SplitLines(text)) : ~HasMarkers(line)

\* C1 -- fail policy: a call of write_from_template with fail_missing=True,
\* a template with a placeholder for X and a non-empty mapping without X
\* raises Jinja2InterfaceError and leaves the output file as it was.
C1_FailPolicyRaises ==
    \A i \in 1..Len(calls) :
        (LacksVariable(calls[i]) /\ calls[i].fail_missing)
            => /\ calls[i].exc = "Jinja2InterfaceError"
               /\ OutputAfter(calls[i]) = OutputBefore(calls[i])

\* C2 -- no partial output: when the back end raises while rendering, the
\* missing-variable check having passed, the output path is exactly as it
\* was before the call.
C2_NoPartialOutput ==
    \A i \in 1..Len(calls) :
        (IsJinja(calls[i]) /\ calls[i].cause = "UndefinedError")
            => OutputAfter(calls[i]) = OutputBefore(calls[i])

\* C3 -- the original template is immutable: after any call of
\* write_from_template, returning or raising, under any flags, the
\* caller's template file exists with the content it had before.
C3_TemplateImmutable ==
    \A i \in 1..Len(calls) :
        (IsJinja(calls[i]) /\ TemplateBefore(calls[i]).e)
            => TemplateAfter(calls[i]) = TemplateBefore(calls[i])

\* C4 -- guaranteed cleanup: the temporary normalized copy a call of
\* write_from_template made no longer exists when the call ends, on every
\* exit path.
C4_GuaranteedCleanup ==
    \A i \in 1..Len(calls) :
        IsJinja(calls[i]) => \A p \in calls[i].virt : ~calls[i].post_fs[p].e

\* C5 -- skip policy: with skip_missing=True and fail_missing=False, a
\* template with a placeholder for X and a non-empty mapping without X,
\* the call returns without raising, and every line of the output is the
\* rendering of a line of the template that does not contain X: nothing
\* of a line that contains X appears.
C5_SkipPolicyDrops ==
    \A i \in 1..Len(calls) :
        (LacksVariable(calls[i]) /\ calls[i].skip_missing /\ ~calls[i].fail_missing)
            => /\ calls[i].exc = "none"
               /\ \A line \in Range(SplitLines(OutputAfter(calls[i]).x)) :
                      \E kept \in Range(SplitLines(RenderedFrom(calls[i]))) :
                          /\ \A x \in Unmapped(calls[i]) : ~Contains(kept, x)
                          /\ JRender(kept, calls[i].post_dict) = line

\* C6 -- warn policy: with fail_missing=False and skip_missing=False, a
\* template with a placeholder for X and a non-empty mapping without X,
\* the call logs the missing names, returns without raising, and the
\* output still holds the placeholder of X.
C6_WarnPolicyKeeps ==
    \A i \in 1..Len(calls) :
        (LacksVariable(calls[i]) /\ ~calls[i].fail_missing /\ ~calls[i].skip_missing)
            => /\ calls[i].exc = "none"
               /\ calls[i].warned
               /\ Unmapped(calls[i]) \subseteq Range(calls[i].missing)
               /\ \A x \in Unmapped(calls[i]) :
                      Contains(Unspaced(OutputAfter(calls[i]).x), Unspaced(Ph(x)))

\* C7 -- complete mapping under the fail policy: when every variable the
\* template references is a key of the non-empty mapping, the call with
\* fail_missing=True does not raise and the output is the template with
\* each placeholder replaced by its value (up to trailing white space).
C7_CompleteMappingRenders ==
    \A i \in 1..Len(calls) :
        (/\ IsJinja(calls[i])
         /\ calls[i].fail_missing
         /\ TemplateBefore(calls[i]).e
         /\ calls[i].pre_dict # <<>>
         /\ ~JSyntaxError(RenderedFrom(calls[i]))
         /\ (JUndeclared(RenderedFrom(calls[i])) \ {EnvName})
                \subseteq Range(Keys(calls[i].pre_dict)))
            => /\ calls[i].exc = "none"
               /\ OutputAfter(calls[i]).e
               /\ RStrip(OutputAfter(calls[i]).x)
                      = RStrip(JRender(RenderedFrom(calls[i]), calls[i].post_dict))

\* C8 -- stateless between calls: two calls of write_from_template in
\* succession with the same paths, mapping object and flags have the same
\* outcome and leave the same output text.
C8_StatelessBetweenCalls ==
    \A i \in 1..Len(calls) :
        (/\ i > 1
         /\ IsJinja(calls[i - 1]) /\ IsJinja(calls[i])
         /\ calls[i].fail_missing = calls[i - 1].fail_missing
         /\ calls[i].rpl_tmpl_mrks = calls[i - 1].rpl_tmpl_mrks
         /\ calls[i].f90_bool = calls[i - 1].f90_bool
         /\ calls[i].skip_missing = calls[i - 1].skip_missing)
            => /\ calls[i].exc = calls[i - 1].exc
               /\ OutputAfter(calls[i]) = OutputAfter(calls[i - 1])

\* C9 -- the caller's mapping is never mutated: after a call of
\* write_from_template, returning or raising, the caller's in_dict has
\* the keys and values it had before, also with f90_bool=True.
C9_MappingNeverMutated ==
    \A i \in 1..Len(calls) :
        IsJinja(calls[i]) => calls[i].post_dict = calls[i].pre_dict

\* C10 -- identity law, success part: a template without placeholders
\* renders without error under any mapping, the empty one included, and
\* any flags, in write_from_template and in Template.write_tmpl.
C10_IdentitySucceeds ==
    \A i \in 1..Len(calls) :
        (TemplateBefore(calls[i]).e /\ NoPlaceholder(TemplateBefore(calls[i]).x))
            => calls[i].exc = "none"

\* C11 -- identity law, output part: a call of write_from_template or
\* Template.write_tmpl that returns on a template without placeholders
\* leaves an output file whose text is the template text verbatim.
C11_IdentityOutput ==
    \A i \in 1..Len(calls) :
        (/\ TemplateBefore(calls[i]).e
         /\ NoPlaceholder(TemplateBefore(calls[i]).x)
         /\ calls[i].exc = "none")
            => OutputAfter(calls[i]) = File(TemplateBefore(calls[i]).x)

\* C12 -- empty mapping: a call of write_from_template with an empty
\* mapping on a template that has a placeholder raises
\* Jinja2InterfaceError under every setting of the flags, and the output
\* file is as it was before the call.
C12_EmptyMappingRaises ==
    \A i \in 1..Len(calls) :
        (/\ IsJinja(calls[i])
         /\ TemplateBefore(calls[i]).e
         /\ ~NoPlaceholder(TemplateBefore(calls[i]).x)
         /\ calls[i].pre_dict = <<>>)
            => /\ calls[i].exc = "Jinja2InterfaceError"
               /\ calls[i].cause = "empty"
               /\ OutputAfter(calls[i]) = OutputBefore(calls[i])

\* A call with skip_missing=True and an empty mapping on the template of
\* the unit test, with an output file already there, has raised.
C12_Witness ==
    \E i \in 1..Len(calls) :
        /\ IsJinja(calls[i])
        /\ TemplateBefore(calls[i]) = File(TScenario)
        /\ calls[i].pre_dict = <<>>
        /\ calls[i].skip_missing
        /\ ~calls[i].fail_missing
        /\ OutputBefore(calls[i]) = File(OldOutput)
        /\ calls[i].exc = "Jinja2InterfaceError"

\* The failures the back end itself raises: when it loads and compiles a
\* template, and when it renders one.
BackEndFailures == {"TemplateSyntaxError", "UndefinedError"}

\* C13 -- uniform error wrapping: whenever the back end fails during a
\* call of write_from_template, while the template is loaded for the
\* discovery of its variables or while it is rendered, the caller gets
\* Jinja2InterfaceError and no exception type of the back end.
C13_UniformErrorWrapping ==
    \A i \in 1..Len(calls) :
        (IsJinja(calls[i]) /\ calls[i].cause \in BackEndFailures)
            => calls[i].exc = "Jinja2InterfaceError"

\* The placeholder of a value of the process environment, and the text
\* the back end writes for it.
EnvPlaceholder == Ph(EnvName \o <<".">> \o EnvHome)
EnvValue == PyStr(Get(Environ, EnvHome))

\* Call c is a call of write_from_template with a non-empty mapping on a
\* template that refers to the environment and to no variable the
\* mapping lacks.
RefersToEnviron(c) ==
    /\ IsJinja(c)
    /\ TemplateBefore(c).e
    /\ Contains(TemplateBefore(c).x, EnvPlaceholder)
    /\ c.pre_dict # <<>>
    /\ Unmapped(c) = {}

\* C14 -- environment namespace: a template that refers to a value of
\* the process environment through env renders under every policy, with
\* the value in the output; the reference is not reported as missing and
\* its line is not dropped.
C14_EnvironmentNamespace ==
    \A i \in 1..Len(calls) :
        RefersToEnviron(calls[i])
            => /\ calls[i].exc = "none"
               /\ calls[i].missing = <<>>
               /\ Contains(OutputAfter(calls[i]).x, EnvValue)

\* C15 -- caller precedence: when the caller's mapping has a key of the
\* name the engine supplies from the process environment, a call of
\* write_from_template that returns has written the caller's value for
\* it and never the environment's.
C15_CallerPrecedence ==
    \A i \in 1..Len(calls) :
        (/\ IsJinja(calls[i])
         /\ TemplateBefore(calls[i]).e
         /\ Contains(TemplateBefore(calls[i]).x, EnvPlaceholder)
         /\ HasKey(calls[i].pre_dict, EnvName)
         /\ calls[i].exc = "none")
            => /\ ~Contains(OutputAfter(calls[i]).x, EnvValue)
               /\ OutputAfter(calls[i]).x # <<>>
                      => Contains(OutputAfter(calls[i]).x,
                                  PyStr(Get(Get(calls[i].pre_dict, EnvName).m, EnvHome)))

\* The text written for the value of key x of the mapping of call c.
ShownValue(c, x) ==
    PyStr(IF c.f90_bool THEN f90_bool(Get(c.pre_dict, x)) ELSE Get(c.pre_dict, x))

\* The names with a placeholder {{ X }} in the caller's template and a
\* key in the mapping.
Resolved(c) ==
    {x \in VariableNames : Contains(TemplateBefore(c).x, Ph(x)) /\ HasKey(c.pre_dict, x)}

ResidualMarker(text) ==
    \E i \in 1..Len(TMPL_ITEM_LIST), x \in VariableNames :
        Contains(text, PercentFormat(TMPL_ITEM_LIST[i], x))

\* C17 -- no residual markers under fail or skip: when a call of
\* write_from_template or Template.write_tmpl with fail_missing=True or
\* skip_missing=True returns, the output holds no marker of any syntax of
\* the catalog.
C17_NoResidualMarkers ==
    \A i \in 1..Len(calls) :
        (/\ TemplateBefore(calls[i]).e
         /\ calls[i].fail_missing \/ calls[i].skip_missing
         /\ calls[i].exc = "none")
            => ~ResidualMarker(OutputAfter(calls[i]).x)

\* The names the template of call c substitutes whose value is a boolean
\* of the mapping, and those whose value is a mapping that holds one.
TopBools(c) == {x \in Resolved(c) : Get(c.pre_dict, x).t = "bool"}

HoldsBool(v) == v.t = "map" /\ \E j \in 1..Len(v.m) : v.m[j].v.t = "bool"

NestedBools(c) ==
    {x \in VariableNames :
        /\ HasKey(c.pre_dict, x)
        /\ HoldsBool(Get(c.pre_dict, x))
        /\ \/ Contains(TemplateBefore(c).x, Ph(x))
           \/ Contains(TemplateBefore(c).x, <<"{", "{", " ">> \o x \o <<".">>)}

\* The native spelling of a boolean is in a text.
NativeBool(text) == Contains(text, TrueStr) \/ Contains(text, FalseStr)

\* C18 as it was stated -- with f90_bool enabled, when a call returns on
\* a template that substitutes a boolean of the mapping, top-level or
\* inside a nested mapping, the output never holds True or False.
C18_EveryBooleanAdapted ==
    \A i \in 1..Len(calls) :
        (/\ TemplateBefore(calls[i]).e
         /\ calls[i].f90_bool
         /\ calls[i].exc = "none"
         /\ TopBools(calls[i]) \cup NestedBools(calls[i]) # {})
            => ~NativeBool(OutputAfter(calls[i]).x)

\* C18, amended -- with f90_bool enabled, when a call returns on a
\* template that substitutes top-level booleans of the mapping and no
\* nested one, the output never holds True or False, and every template
\* line with the placeholder of such a boolean is in the output with T or
\* F in its place (unless the skip policy dropped lines).
C18_TopLevelBooleanAdapted ==
    \A i \in 1..Len(calls) :
        (/\ TemplateBefore(calls[i]).e
         /\ calls[i].f90_bool
         /\ calls[i].exc = "none"
         /\ TopBools(calls[i]) # {}
         /\ NestedBools(calls[i]) = {})
            => /\ ~NativeBool(OutputAfter(calls[i]).x)
               /\ ~calls[i].skip_missing
                      => \A x \in TopBools(calls[i]) :
                             \A line \in Range(SplitLines(TemplateBefore(calls[i]).x)) :
                                 Contains(line, Ph(x))
                                     => Contains(OutputAfter(calls[i]).x,
                                                 Replace(line, Ph(x), ShownValue(calls[i], x)))

\* Calls of write_from_template and of Template.write_tmpl with
\* f90_bool=True on FLAG={{ FLAG }} with FLAG a boolean have returned.
C18_Witness ==
    /\ \E i \in 1..Len(calls) :
           /\ IsJinja(calls[i])
           /\ calls[i].f90_bool
           /\ TemplateBefore(calls[i]) = File(TBool)
           /\ TopBools(calls[i]) = {FLAG}
           /\ calls[i].exc = "none"
    /\ \E i \in 1..Len(calls) :
           /\ ~IsJinja(calls[i])
           /\ calls[i].f90_bool
           /\ TemplateBefore(calls[i]) = File(TBool)
           /\ TopBools(calls[i]) = {FLAG}
           /\ calls[i].exc = "none"

\* C19 -- f90_bool maps boolean true to the string "T" and boolean false
\* to the string "F", and returns every value that is not a boolean
\* unchanged (the integers 0, 1 and 123, strings, mappings).
C19_F90Bool ==
    \A i \in 1..Len(calls) :
        /\ calls[i].value = BoolV(TRUE) => calls[i].result = StrV(<<"T">>)
        /\ calls[i].value = BoolV(FALSE) => calls[i].result = StrV(<<"F">>)
        /\ calls[i].value.t # "bool" => calls[i].result = calls[i].value

\* Template.f90_bool has been applied to the integer 0 and to the
\* boolean true.
C19_Witness ==
    /\ \E i \in 1..Len(calls) :
           /\ calls[i].op = "Template.f90_bool"
           /\ calls[i].value = IntV(0)
           /\ calls[i].result = IntV(0)
    /\ \E i \in 1..Len(calls) :
           /\ calls[i].op = "Template.f90_bool"
           /\ calls[i].value = BoolV(TRUE)
           /\ calls[i].result = StrV(<<"T">>)

\* A text is in canonical syntax: no line holds both literals of an entry
\* of the catalog other than the last, the double-brace one.
OtherSyntax(line) ==
    \E i \in 1..(Len(TMPL_ITEM_LIST) - 1) :
        /\ Contains(line, Strip(SplitSlot(TMPL_ITEM_LIST[i])[1]))
        /\ Contains(line, Strip(SplitSlot(TMPL_ITEM_LIST[i])[2]))

IsCanonical(text) == \A line \in Range(SplitLines(text)) : ~OtherSyntax(line)

\* C20 -- normalization round-trip: _replace_tmplmarkers writes a text
\* equal to its input when the input is in canonical syntax, and when the
\* input is itself a text _replace_tmplmarkers wrote.
C20_NormalizationRoundTrip ==
    \A i \in 1..Len(calls) :
        (IsCanonical(calls[i].input) \/ calls[i].tmpl_path # TmplPath)
            => calls[i].output = calls[i].input

\* The names with a marker of some syntax of the catalog in the caller's
\* template.
Templated(c) ==
    {x \in VariableNames :
        \E i \in 1..Len(TMPL_ITEM_LIST) :
            Contains(TemplateBefore(c).x, PercentFormat(TMPL_ITEM_LIST[i], x))}

\* The lines of a text, the empty lines at its end left out.
LinesOf(text) == SplitLines(RStrip(text))

\* The caller's template with every marker of a key of the mapping
\* replaced by the string form of its value.
Substituted(c) ==
    replace_attrs(TemplateBefore(c).x, c.pre_dict, c.pre_dict, c.f90_bool)

\* C21 -- a call of Template.write_tmpl with fail_missing=True and a
\* mapping that has a key for every name templated in the file does not
\* raise, and the lines of the output are the lines of the template with
\* each marker replaced by the string form of the mapped value.
C21_CompleteMappingWrites ==
    \A i \in 1..Len(calls) :
        (/\ calls[i].op = "write_tmpl"
         /\ calls[i].fail_missing
         /\ TemplateBefore(calls[i]).e
         /\ \A x \in Templated(calls[i]) : HasKey(calls[i].pre_dict, x))
            => /\ calls[i].exc = "none"
               /\ LinesOf(OutputAfter(calls[i]).x) = LinesOf(Substituted(calls[i]))

\* The open and the close literal of a catalog entry.
OpenLiteral(item) == SplitSlot(item)[1]
CloseLiteral(item) == SplitSlot(item)[2]

\* A line with the literals of the first entry that has both of them in
\* the line replaced by "{{ " and " }}", and no other entry applied; the
\* line itself when there is no such entry.
RECURSIVE FirstMatchRewrite(_, _)
FirstMatchRewrite(line, items) ==
    IF items = <<>> THEN line
    ELSE IF Contains(line, OpenLiteral(Head(items))) /\ Contains(line, CloseLiteral(Head(items)))
    THEN Replace(Replace(line, OpenLiteral(Head(items)), <<"{", "{", " ">>),
                 CloseLiteral(Head(items)), <<" ", "}", "}">>)
    ELSE FirstMatchRewrite(line, Tail(items))

FirstMatchLines(lines) ==
    [i \in 1..Len(lines) |-> FirstMatchRewrite(lines[i], TMPL_ITEM_LIST)]

\* C22 -- normalizer first-match-wins: _replace_tmplmarkers rewrites each
\* line on its own; the first entry of TMPL_ITEM_LIST whose open and close
\* literals both occur in the line has these literals replaced by "{{ "
\* and " }}", no later entry is applied, and a line without such an entry
\* is written unchanged.
C22_FirstMatchWins ==
    \A i \in 1..Len(calls) :
        calls[i].exc = "none"
            => calls[i].output = WriteLines(FirstMatchLines(SplitLines(calls[i].input)))

\* The non-canonical syntaxes [@NAME], {@NAME}, {%NAME%} and <NAME> of
\* the catalog, by their position in TMPL_ITEM_LIST.
NonCanonical == {1, 2, 3, 5}

\* The marker of a syntax for a name, as Template.render_tmpl looks for it.
Marker(k, name) == PercentFormat(TMPL_ITEM_LIST[k], name)

\* Line j of the text a call read, and of the text it wrote.
InputLine(c, j) == SplitLines(c.input)[j]
OutputLine(c, j) == SplitLines(c.output)[j]

\* C23 -- the normalizer covers the catalog: for each of the syntaxes
\* [@NAME], {@NAME}, {%NAME%}, <NAME> and each variable name, a line that
\* holds one such marker is written by _replace_tmplmarkers with the
\* canonical marker {{ NAME }} in its place.
C23_NormalizerCoversCatalog ==
    \A i \in 1..Len(calls) :
        calls[i].exc = "none"
            => \A j \in 1..Len(SplitLines(calls[i].input)) :
                   \A k \in NonCanonical, x \in VariableNames :
                       Contains(InputLine(calls[i], j), Marker(k, x))
                           => OutputLine(calls[i], j)
                                  = Replace(InputLine(calls[i], j), Marker(k, x), Ph(x))

\* The lines of a text that hold both "{{" and "}}" and do not hold "or",
\* and for each the trimmed text between its first "{{" and first "}}".
ScannedLines(text) ==
    SelectSeq(SplitLines(text),
              LAMBDA line : /\ Contains(line, VarOpen)
                            /\ Contains(line, VarClose)
                            /\ ~Contains(line, OrStr))

BetweenDelimiters(line) ==
    Strip(Slice(line, Index(line, VarOpen) + Len(VarOpen), Index(line, VarClose)))

ScannedNames(text) ==
    [j \in 1..Len(ScannedLines(text)) |-> BetweenDelimiters(ScannedLines(text)[j])]

\* C24 -- fallback discovery scan: when the analyzer reports no variable,
\* _get_template_vars returns, in line order, the trimmed text between the
\* first "{{" and the first "}}" of each line that holds both and does not
\* hold "or"; a line that lacks a delimiter adds no name and no error.
C24_FallbackScan ==
    \A i \in 1..Len(calls) :
        (/\ IsJinja(calls[i])
         /\ ~calls[i].rpl_tmpl_mrks
         /\ calls[i].pre_dict # <<>>
         /\ TemplateBefore(calls[i]).e
         /\ get_template(calls[i].pre_fs, TmplPath).exc = "none"
         /\ parsed_variables(get_template(calls[i].pre_fs, TmplPath)) = <<>>)
            => /\ calls[i].cause # "ValueError"
               /\ get_template_vars(calls[i].pre_fs, TmplPath)
                      = [exc |-> "none", variables |-> ScannedNames(TemplateBefore(calls[i]).x)]

\* The first elements of the keys of a mapping that are tuples.
TupleFirsts(d) == {d[j].k[2] : j \in {j \in 1..Len(d) : IsTuple(d[j].k)}}

\* C25 -- composite keys: _find_missing_vars compares the first element
\* of a key that is a tuple with the discovered variable names, so a
\* template variable equal to that first element is never in the list of
\* missing variables, and a raise under fail_missing names only variables
\* that are neither a key nor the first element of a tuple key.
C25_CompositeKeys ==
    \A i \in 1..Len(calls) :
        /\ \A x \in TupleFirsts(calls[i].in_dict) : x \notin Range(calls[i].missing)
        /\ calls[i].cause = "missing"
               => /\ calls[i].fail_missing
                  /\ calls[i].missing # <<>>
                  /\ \A x \in Range(calls[i].missing) :
                         ~HasKey(calls[i].in_dict, x) /\ x \notin TupleFirsts(calls[i].in_dict)

\* _find_missing_vars has returned, under fail_missing, an empty list for
\* the template NAME1={{ NAME1 }} / NAME2={{ NAME2 }} and a mapping with
\* the keys NAME1 and (NAME2, m).
C25_Witness ==
    \E i \in 1..Len(calls) :
        /\ calls[i].tmpl = TScenario
        /\ calls[i].fail_missing
        /\ HasKey(calls[i].in_dict, NAME1)
        /\ TupleFirsts(calls[i].in_dict) = {NAME2}
        /\ calls[i].exc = "none"
        /\ calls[i].missing = <<>>

\* The lines of the text render_tmpl returns to write_tmpl in call c.
RenderedLines(c) ==
    SplitLines(render_tmpl(tmpl_obj(c.pre_dict), read_tmpl(TemplateBefore(c).x),
                           c.fail_missing, c.f90_bool).out)

\* C26 -- when Template.write_tmpl returns, the output file holds, whatever
\* it held before, exactly one line per rendered line, each equal to the
\* rendered line with its trailing whitespace stripped.
C26_TrailingWhitespaceStripped ==
    \A i \in 1..Len(calls) :
        (calls[i].op = "write_tmpl" /\ calls[i].exc = "none")
            => /\ OutputAfter(calls[i]).e
               /\ OutputAfter(calls[i]).x
                      = WriteLines([j \in 1..Len(RenderedLines(calls[i])) |->
                                       RStrip(RenderedLines(calls[i])[j])])

\* What _get_template_vars finds in the file call c checks: the caller's
\* template, normalized when the call asked for it.
DiscoveredIn(c) ==
    get_template_vars([c.pre_fs EXCEPT ![TmplPath] = File(RenderedFrom(c))], TmplPath)

\* Call c has fail_missing and skip_missing both True and discovers a
\* variable that is not a key of the mapping.
FailAndSkip(c) ==
    /\ IsJinja(c)
    /\ c.fail_missing
    /\ c.skip_missing
    /\ TemplateBefore(c).e
    /\ DiscoveredIn(c).exc = "none"
    /\ \E x \in Range(DiscoveredIn(c).variables) : ~HasKey(c.pre_dict, x)

\* C28 -- fail takes precedence over skip: with fail_missing and
\* skip_missing both True and a discovered variable missing from the
\* mapping, write_from_template raises Jinja2InterfaceError before the
\* skip rewrite: the caller's file and the normalized copy are not
\* rewritten and the output file is as it was before the call.
C28_FailBeforeSkip ==
    \A i \in 1..Len(calls) :
        FailAndSkip(calls[i])
            => /\ calls[i].exc = "Jinja2InterfaceError"
               /\ calls[i].cause \in {"missing", "empty"}
               /\ calls[i].rewrote = {}
               /\ TemplateAfter(calls[i]) = TemplateBefore(calls[i])
               /\ \A v \in calls[i].virt : calls[i].post_fs[v] = File(RenderedFrom(calls[i]))
               /\ OutputAfter(calls[i]) = OutputBefore(calls[i])

\* Calls with fail_missing and skip_missing on NAME1={{ NAME1 }} /
\* NAME2={{ NAME2 }} with the mapping {NAME1: ham} have raised for the
\* missing NAME2, one on the caller's file and one on a normalized copy,
\* with an output file that existed before.
C28_Witness ==
    \E i, j \in 1..Len(calls) :
        /\ FailAndSkip(calls[i])
        /\ FailAndSkip(calls[j])
        /\ TemplateBefore(calls[i]) = File(TScenario)
        /\ OutputBefore(calls[i]) = File(OldOutput)
        /\ calls[i].missing = <<NAME2>>
        /\ calls[i].cause = "missing"
        /\ ~calls[i].rpl_tmpl_mrks
        /\ calls[j].rpl_tmpl_mrks
        /\ calls[j].cause = "missing"

\* The marker characters, and the test that a line of the text
\* render_tmpl returns in call c holds one of them.
MarkerChars == {"[", "]", "@", "{", "}", "%", "<", ">"}

HoldsMarkerChar(line) == \E j \in 1..Len(line) : line[j] \in MarkerChars

MarkerCharLeft(c) == \E line \in Range(RenderedLines(c)) : HoldsMarkerChar(line)

\* C29 -- all-or-nothing in the non-Jinja renderer: Template.write_tmpl
\* with fail_missing=True writes the output file only if, after
\* substitution, no line of the text holds one of the characters
\* [ ] @ { } % < >; otherwise it raises TemplateInterfaceError and the
\* output file is as it was, absent or with its old content.
C29_AllOrNothing ==
    \A i \in 1..Len(calls) :
        (/\ calls[i].op = "write_tmpl"
         /\ calls[i].fail_missing
         /\ TemplateBefore(calls[i]).e)
            => IF MarkerCharLeft(calls[i])
               THEN /\ calls[i].exc = "TemplateInterfaceError"
                    /\ OutputAfter(calls[i]) = OutputBefore(calls[i])
               ELSE /\ calls[i].exc = "none"
                    /\ OutputAfter(calls[i]).e

\* A call of write_tmpl with fail_missing=True on NAME1={{ NAME1 }} /
\* NAME2={{ NAME2 }} with the mapping {NAME1: ham} has raised for the
\* line left with NAME2's marker, the output file keeping its old content.
C29_Witness ==
    \E i \in 1..Len(calls) :
        /\ calls[i].op = "write_tmpl"
        /\ calls[i].fail_missing
        /\ TemplateBefore(calls[i]) = File(TScenario)
        /\ HasKey(calls[i].pre_dict, NAME1)
        /\ MarkerCharLeft(calls[i])
        /\ calls[i].exc = "TemplateInterfaceError"
        /\ OutputBefore(calls[i]) = File(OldOutput)
        /\ OutputAfter(calls[i]) = File(OldOutput)

\* C30 -- with rpl_tmpl_mrks=True the skip rewrite and the final deletion
\* of write_from_template act on the temporary normalized copy: whatever
\* skip_missing and fail_missing are, after a call that returns the
\* caller's template file exists with the content it had, it is not among
\* the files the call rewrote, and the copy is gone.
C30_CopyTakesTheRewrite ==
    \A i \in 1..Len(calls) :
        (/\ IsJinja(calls[i])
         /\ calls[i].rpl_tmpl_mrks
         /\ calls[i].exc = "none")
            => /\ TemplateBefore(calls[i]).e
               /\ TemplateAfter(calls[i]) = TemplateBefore(calls[i])
               /\ TmplPath \notin calls[i].virt \cup calls[i].rewrote
               /\ calls[i].rewrote \subseteq calls[i].virt
               /\ \A v \in calls[i].virt : ~calls[i].post_fs[v].e

\* A call with rpl_tmpl_mrks=True and skip_missing=True on
\* NAME1={{ NAME1 }} / NAME2={{ NAME2 }} with the mapping {NAME1: ham} has
\* returned: it rewrote its copy without the line of NAME2, rendered it
\* and deleted it.
C30_Witness ==
    \E i \in 1..Len(calls) :
        /\ IsJinja(calls[i])
        /\ calls[i].rpl_tmpl_mrks
        /\ calls[i].skip_missing
        /\ calls[i].exc = "none"
        /\ TemplateBefore(calls[i]) = File(TScenario)
        /\ calls[i].missing = <<NAME2>>
        /\ calls[i].rewrote # {}
        /\ ~Contains(OutputAfter(calls[i]).x, NAME2)
        /\ TemplateAfter(calls[i]) = File(TScenario)

\* What the call of caller p leaves when it runs alone, from the files and
\* the mapping the two calls started with.
Alone(c) ==
    write_from_template(c.pre_fs, c.tmpl_path, c.output_file, c.pre_dict, 0,
                        c.fail_missing, c.rpl_tmpl_mrks, c.f90_bool, c.skip_missing)

\* The call of caller p ended as the call alone ends: the same outcome,
\* the same mapping, the same template file and output file, and the same
\* temporary copy, left or deleted.
SameAsAlone(p, c, alone) ==
    /\ c.exc = alone.exc
    /\ c.cause = alone.cause
    /\ c.missing = alone.missing
    /\ in_dict[p] = alone.in_dict
    /\ fs[c.tmpl_path] = alone.fs[c.tmpl_path]
    /\ fs[c.output_file] = alone.fs[c.output_file]
    /\ c.rpl_tmpl_mrks => fs[c.cur] = alone.fs[VirtPath(1)]

\* C27 -- two calls of write_from_template running at once on distinct
\* template paths, output paths and mapping objects do not interfere:
\* under every interleaving of their steps, a call that has ended has the
\* outcome, the output and the files it has when run alone, the
\* virtual-file factory returning a new path to each call.
C27_NoInterference ==
    \A p \in Callers :
        calls[p].pc = "done" => SameAsAlone(p, calls[p], Alone(calls[p]))

\* Caller 2 normalized its template first and is about to render its
\* copy, while caller 1, which normalized second, has run all its steps
\* and returned.
C27_Witness ==
    /\ calls[1].pc = "done"
    /\ calls[1].exc = "none"
    /\ calls[1].rpl_tmpl_mrks
    /\ calls[1].cur = VirtPath(2)
    /\ calls[2].pc = "render"
    /\ calls[2].rpl_tmpl_mrks
    /\ calls[2].cur = VirtPath(1)
    /\ fs[VirtPath(1)].e
    /\ fs[Tmpl2Path].x # fs[TmplPath].x

====
